---- MODULE Spec2Model ----
(***************************************************************************)
(* BiblioDrift: the shelf collection kept by LibraryManager (in memory and *)
(* in localStorage), the 3D renderer that edits the persisted blob         *)
(* directly, and the pull-merge / push-sync against the library backend.   *)
(***************************************************************************)
EXTENDS Integers, Sequences, FiniteSets, TLC

VARIABLES library,    \* LibraryManager.library: shelf -> list of book records
          storage,    \* localStorage['bibliodrift_library'], as the JSON value it holds
          user,       \* localStorage['bibliodrift_user']: NoUser or a user id
          pull,       \* the constructor's syncWithBackend: its position and response
          push,       \* syncLocalToBackend: its position, batch and nested pull
          auth,       \* handleAuth: its position
          posts,      \* addBook calls waiting for their POST /library response
          dels,       \* removeBook calls waiting for their DELETE response
          blob,       \* what kind of text the library key of localStorage holds
          lm,         \* the page's LibraryManager: "ok", "noshelves" ({}), "crashed"
          merged,     \* the last pull-merge: collection before, snapshot, collection the loop left
          out,        \* toasts shown by the last handler; whether an exception left it
          login,      \* what has happened since the last successful login
          server,     \* the backend's rows this page has stored; the book each POST carries
          gone,       \* per pull in flight: the ids removeBook took out since it was sent
          edit,       \* the renderer's last write to the blob on this page
          steps       \* number of events handled so far

vars == <<library, storage, user, pull, push, auth, posts, dels, blob, lm, merged, out,
          login, server, gone, edit, steps>>

-----------------------------------------------------------------------------
(* Values *)

UNDEF == -2      \* a property that is absent (undefined); JSON.stringify drops it
NULL == -1       \* null
NoUser == 0
TheUser == 1      \* data.user of a successful login

Shelves == {"current", "want", "finished"}

Ids == {"b1", "b2"}                 \* google books volume ids
DbIds == {7}                        \* ids the backend gives its rows
RemoteShelves == Shelves \cup {"read"}   \* shelf_type as sent by the backend
LocalTitle == "L"                   \* title in the catalog result the user files
RemoteTitles == {"R"}               \* title stored by the backend
Now == 1                            \* new Date().toISOString()
CreatedAts == {2}                   \* item.created_at (0 would be falsy: absent)

EmptyLibrary == [s \in Shelves |-> <<>>]

(* One item of data.library *)
RemoteItems ==
    [google_books_id : Ids, id : DbIds, shelf_type : RemoteShelves,
     title : RemoteTitles, created_at : CreatedAts]

(* data.library: the snapshots of zero, one or two records *)
Snapshots ==
    {<<>>} \cup {<<a>> : a \in RemoteItems}
           \cup {<<a, b>> : a \in RemoteItems, b \in RemoteItems}

-----------------------------------------------------------------------------
(* Helpers on sequences and collections *)

IdsOn(lib, s) == {lib[s][i].id : i \in 1..Len(lib[s])}
AllIds(lib) == UNION {IdsOn(lib, s) : s \in Shelves}

(* number of records with this id, over all shelves *)
CountOn(lib, s, id) == Cardinality({i \in 1..Len(lib[s]) : lib[s][i].id = id})
Count(lib, id) ==
    CountOn(lib, "current", id) + CountOn(lib, "want", id) + CountOn(lib, "finished", id)


Unique(lib) == \A id \in Ids : Count(lib, id) <= 1

(* array.filter(b => b.id !== id) *)
RECURSIVE Without(_, _)
Without(seq, id) ==
    IF seq = <<>> THEN <<>>
    ELSE IF Head(seq).id = id THEN Without(Tail(seq), id)
    ELSE <<Head(seq)>> \o Without(Tail(seq), id)

(* index of the last record with this id, 0 if there is none *)
LastIdx(seq, id) ==
    LET hits == {i \in 1..Len(seq) : seq[i].id = id}
    IN IF hits = {} THEN 0 ELSE CHOOSE i \in hits : \A j \in hits : j <= i

(* array.findIndex(b => b.id === id), 0 for -1 *)
FirstIdx(seq, id) ==
    LET hits == {i \in 1..Len(seq) : seq[i].id = id}
    IN IF hits = {} THEN 0 ELSE CHOOSE i \in hits : \A j \in hits : i <= j

(* array.splice(i, 1) *)
RemoveAt(seq, i) == SubSeq(seq, 1, i - 1) \o SubSeq(seq, i + 1, Len(seq))

-----------------------------------------------------------------------------
(* Persistence: JSON.stringify / JSON.parse of the collection.  The blob   *)
(* holds the records' data properties; which object a record is (ref, the  *)
(* handle an addBook in flight keeps on its enrichedBook) is not data.     *)

StringifyBook(b) ==
    [id |-> b.id, db_id |-> b.db_id, title |-> b.title,
     progress |-> b.progress, date_added |-> b.date_added]

(* a parse that gives a record without date_added the current time *)
ParseBookFillsDate(j) ==
    [id |-> j.id, db_id |-> j.db_id, title |-> j.title,
     progress |-> j.progress,
     date_added |-> IF j.date_added = UNDEF THEN Now ELSE j.date_added, ref |-> 0]

ParseBook(j) ==
    [id |-> j.id, db_id |-> j.db_id, title |-> j.title,
     progress |-> j.progress, date_added |-> j.date_added, ref |-> 0]

Stringify(lib) ==
    [s \in Shelves |-> [i \in 1..Len(lib[s]) |-> StringifyBook(lib[s][i])]]

Parse(json) ==
    [s \in Shelves |-> [i \in 1..Len(json[s]) |-> ParseBook(json[s][i])]]

-----------------------------------------------------------------------------
(* LibraryManager lookups *)

findBook(lib, id) == \E s \in Shelves : id \in IdsOn(lib, s)

(* first shelf, in key order, that holds the id; "none" for null *)
findBookShelf(lib, id) ==
    IF id \in IdsOn(lib, "current") THEN "current"
    ELSE IF id \in IdsOn(lib, "want") THEN "want"
    ELSE IF id \in IdsOn(lib, "finished") THEN "finished"
    ELSE "none"

-----------------------------------------------------------------------------
(* syncWithBackend: the merge of data.library into this.library *)

(* localBooksMap after step 1: for each id the shelf of the entry set last *)
BuildMap(lib) ==
    [id \in Ids |->
        IF id \in IdsOn(lib, "finished") THEN "finished"
        ELSE IF id \in IdsOn(lib, "want") THEN "want"
        ELSE IF id \in IdsOn(lib, "current") THEN "current"
        ELSE "none"]

(* a remoteBook that does not carry the backend's id of the row *)
RemoteBookNoDbId(item, hasExisting, exProgress) ==
    [id |-> item.google_books_id,
     db_id |-> UNDEF,
     title |-> item.title,
     progress |-> IF hasExisting THEN exProgress
                  ELSE IF item.shelf_type = "current" THEN 0 ELSE NULL,
     date_added |-> IF item.created_at # 0 THEN item.created_at ELSE Now,
     ref |-> 0]

(* the remoteBook object built for one item *)
RemoteBook(item, hasExisting, exProgress) ==
    [id |-> item.google_books_id,
     db_id |-> item.id,
     title |-> item.title,
     progress |-> IF hasExisting THEN exProgress
                  ELSE IF item.shelf_type = "current" THEN 0 ELSE NULL,
     date_added |-> IF item.created_at # 0 THEN item.created_at ELSE Now,
     ref |-> 0]

(* one iteration of data.library.forEach; st.threw: a TypeError has ended the loop *)
MergeItem(st, item) ==
    IF st.threw THEN st
    ELSE
    LET gid == item.google_books_id
        sh == st.map[gid]
        hasExisting == sh # "none"
        idx == IF hasExisting THEN LastIdx(st.lib[sh], gid) ELSE 0
        exBook == st.lib[sh][idx]
        remoteBook == RemoteBook(item, hasExisting, IF hasExisting THEN exBook.progress ELSE UNDEF)
    IN IF hasExisting
       THEN IF sh # item.shelf_type
            THEN LET removed == [st.lib EXCEPT ![sh] = Without(@, gid)]
                 IN IF item.shelf_type \in Shelves
                    THEN [lib |-> [removed EXCEPT ![item.shelf_type] = Append(@, remoteBook)],
                          map |-> [st.map EXCEPT ![gid] = "none"],
                          threw |-> FALSE]
                    ELSE [lib |-> removed, map |-> st.map, threw |-> TRUE]
            ELSE [lib |-> [st.lib EXCEPT ![sh][idx] = [remoteBook EXCEPT !.ref = exBook.ref]],
                  map |-> [st.map EXCEPT ![gid] = "none"],
                  threw |-> FALSE]
       ELSE IF item.shelf_type \in Shelves
            THEN [st EXCEPT !.lib[item.shelf_type] = Append(@, remoteBook)]
            ELSE st

(* the ids the snapshot names *)
SnapIds(snap) == {snap[i].google_books_id : i \in 1..Len(snap)}

RECURSIVE MergeFrom(_, _)
MergeFrom(st, snap) ==
    IF snap = <<>> THEN st ELSE MergeFrom(MergeItem(st, Head(snap)), Tail(snap))

(* a merge that also deletes the local records the snapshot does not name *)
MergeDropUnmatched(lib, snap) ==
    LET m == MergeFrom([lib |-> lib, map |-> BuildMap(lib), threw |-> FALSE], snap)
    IN [m EXCEPT !.lib = [s \in Shelves |->
                            SelectSeq(m.lib[s], LAMBDA b : b.id \in SnapIds(snap))]]

(* steps 1 and 2 of the merge: the collection after, and whether it threw *)
Merge(lib, snap) ==
    MergeFrom([lib |-> lib, map |-> BuildMap(lib), threw |-> FALSE], snap)

-----------------------------------------------------------------------------
(* sortLibrary: Array.prototype.sort (stable) with sortFn, on every shelf *)

(* sortSelect.value when a merge re-renders; "none": no select on the page *)
SortCriteria == {"none", "date_desc", "title_asc"}

DateKey(b) == IF b.date_added = UNDEF THEN 0 ELSE b.date_added
TitleKey(b) == IF b.title = LocalTitle THEN 1 ELSE 2

(* sortFn(a, b) <= 0 exactly when SortKey(a) <= SortKey(b) *)
SortKey(b, criteria) ==
    CASE criteria = "date_desc" -> 0 - DateKey(b)
      [] criteria = "date_asc" -> DateKey(b)
      [] criteria = "title_asc" -> TitleKey(b)
      [] criteria = "title_desc" -> 0 - TitleKey(b)
      [] OTHER -> 0

InsertSorted(sorted, x, criteria) ==
    LET n == Cardinality({i \in 1..Len(sorted) :
                            SortKey(sorted[i], criteria) <= SortKey(x, criteria)})
    IN SubSeq(sorted, 1, n) \o <<x>> \o SubSeq(sorted, n + 1, Len(sorted))

RECURSIVE SortShelf(_, _)
SortShelf(seq, criteria) ==
    IF seq = <<>> THEN <<>>
    ELSE InsertSorted(SortShelf(SubSeq(seq, 1, Len(seq) - 1), criteria),
                      seq[Len(seq)], criteria)

sortLibrary(lib, criteria) == [s \in Shelves |-> SortShelf(lib[s], criteria)]

-----------------------------------------------------------------------------
(* syncLocalToBackend: the flattened list of records without a db_id *)

(* a selection that forgets the db_id test *)
RECURSIVE UnsyncedAll(_, _)
UnsyncedAll(seq, shelf) ==
    IF seq = <<>> THEN <<>>
    ELSE <<[book |-> StringifyBook(Head(seq)), shelf |-> shelf]>> \o UnsyncedAll(Tail(seq), shelf)

RECURSIVE Unsynced(_, _)
Unsynced(seq, shelf) ==
    IF seq = <<>> THEN <<>>
    ELSE (IF Head(seq).db_id = UNDEF
          THEN <<[book |-> StringifyBook(Head(seq)), shelf |-> shelf]>>
          ELSE <<>>) \o Unsynced(Tail(seq), shelf)

ItemsToSync(lib) ==
    Unsynced(lib["current"], "current") \o Unsynced(lib["want"], "want")
        \o Unsynced(lib["finished"], "finished")

-----------------------------------------------------------------------------
(* State *)

MaxPosts == 1       \* requests of one kind (POST, DELETE) that may be in flight together
MaxSteps == 3       \* events explored from a page load
Refs == 1..MaxPosts

FailKinds == {"neterr", "notok", "badjson"}   \* fetch rejects; !res.ok; res.json() rejects

(* what localStorage['bibliodrift_library'] may hold: the JSON of a        *)
(* collection, nothing (getItem gives null), text that is not JSON, or     *)
(* JSON without the shelf lists ('{}')                                     *)
BlobKinds == {"ok", "absent", "garbage", "noshelves"}

NoMerge ==
    [done |-> FALSE, pre |-> EmptyLibrary, snap |-> <<>>, threw |-> FALSE,
     post |-> EmptyLibrary, gone |-> {}]
NoPush == [pc |-> "idle", batch |-> <<>>, outcome |-> "none"]

(* what a handler showed, whether an exception left it, and the value its *)
(* promise resolves with ("true", "false"; "none": undefined)              *)
Out(toasts, raised) == [toasts |-> toasts, raised |-> raised, ret |-> "none"]
Quiet == Out({}, FALSE)
Returns(value) == [toasts |-> {}, raised |-> FALSE, ret |-> value]

(* the remote library service as this page's requests leave it.  rows: the *)
(* google_books_ids it holds a row for because a POST of this page stored  *)
(* it and no DELETE of this page has named it since (requests are handled  *)
(* in the order they are sent); post: the google_books_id in the payload   *)
(* of each POST /library in flight                                         *)
NoPosts == [k \in Refs |-> "none"]
NoServer == [rows |-> {}, post |-> NoPosts]

(* no removeBook since either pull was sent *)
NoGone == [pull |-> {}, push |-> {}]

(* the renderer has written nothing since the page loaded *)
NoEdit == [op |-> "none", id |-> "none", to |-> "none"]

(* the toast of a catch block: shown when the request threw, not when the *)
(* server answered with a non-OK status                                    *)
CatchToast(kind, toast) == IF kind = "notok" THEN {} ELSE {toast}

(* one more event is handled *)
Tick == steps < MaxSteps /\ steps' = steps + 1

(* JSON.parse(localStorage.getItem(key)) || {current: [], want: [], finished: []} *)
(* in the constructor: the manager it leaves ("crashed": JSON.parse threw)  *)
Load(kind, sto) ==
    CASE kind = "ok" -> [lm |-> "ok", lib |-> Parse(sto)]
      [] kind = "absent" -> [lm |-> "ok", lib |-> EmptyLibrary]
      [] kind = "noshelves" -> [lm |-> "noshelves", lib |-> EmptyLibrary]
      [] OTHER -> [lm |-> "crashed", lib |-> EmptyLibrary]

(* what the blob may hold when a page loads: nothing, or one book that was *)
(* filed anonymously (addBook without a user) as being read on an earlier  *)
(* visit                                                                   *)
InitialLibraries ==
    {EmptyLibrary,
     [EmptyLibrary EXCEPT !["current"] =
         <<[id |-> "b1", db_id |-> UNDEF, title |-> LocalTitle,
            progress |-> 0, date_added |-> Now, ref |-> 0]>>]}

(* a page has loaded: the constructor has read the blob and, if a user is  *)
(* stored from before, has sent its pull                                   *)
Init ==
    /\ blob \in BlobKinds
    /\ storage \in {Stringify(l) : l \in IF blob = "ok" THEN InitialLibraries ELSE {EmptyLibrary}}
    /\ lm = Load(blob, storage).lm
    /\ library = Load(blob, storage).lib
    /\ user \in {NoUser, TheUser}
    /\ pull = IF user # NoUser /\ lm # "crashed" THEN "fetch" ELSE "idle"
    /\ push = NoPush
    /\ auth = "idle"
    /\ posts = {}
    /\ dels = 0
    /\ merged = NoMerge
    /\ out = Out({}, lm = "crashed")
    /\ login = <<>>
    /\ server = NoServer
    /\ gone = NoGone
    /\ edit = NoEdit
    /\ steps = 0

(* the record a ref designates loses its db_id-less state / its handle *)
SetDbId(lib, k, d) ==
    [s \in Shelves |->
        [i \in 1..Len(lib[s]) |->
            IF lib[s][i].ref = k THEN [lib[s][i] EXCEPT !.db_id = d, !.ref = 0]
            ELSE lib[s][i]]]

DropRef(lib, k) ==
    [s \in Shelves |->
        [i \in 1..Len(lib[s]) |->
            IF lib[s][i].ref = k THEN [lib[s][i] EXCEPT !.ref = 0] ELSE lib[s][i]]]

-----------------------------------------------------------------------------
(* LibraryManager *)

(* removeBook, its local part: drop the id from the first shelf that has it *)
RemoveLocal(lib, id) ==
    LET shelf == findBookShelf(lib, id)
    IN IF shelf = "none" THEN lib ELSE [lib EXCEPT ![shelf] = Without(@, id)]

(* a removeBook that sends its DELETE whether or not a user is stored *)
SendsDeleteAnonymous(lib, id) ==
    LET shelf == findBookShelf(lib, id)
    IN /\ shelf # "none"
       /\ lib[shelf][FirstIdx(lib[shelf], id)].db_id # UNDEF

(* removeBook sends DELETE /library/{db_id}: a user is stored and the record *)
(* findBookInShelf returns has a db_id                                      *)
SendsDelete(lib, id) ==
    LET shelf == findBookShelf(lib, id)
    IN /\ user # NoUser
       /\ shelf # "none"
       /\ lib[shelf][FirstIdx(lib[shelf], id)].db_id # UNDEF

(* an enrichedBook that starts every book at progress 0, whatever the shelf *)
EnrichedBookAlwaysZero(id, shelf, k) ==
    [id |-> id, db_id |-> UNDEF, title |-> LocalTitle,
     progress |-> 0, date_added |-> Now, ref |-> k]

(* the enrichedBook addBook builds from a catalog result *)
EnrichedBook(id, shelf, k) ==
    [id |-> id, db_id |-> UNDEF, title |-> LocalTitle,
     progress |-> IF shelf = "current" THEN 0 ELSE NULL,
     date_added |-> Now, ref |-> k]

(* an addBook that pushes onto the new shelf without leaving the old one *)
AddLocalKeepsOld(lib, id, shelf, k) ==
    IF findBook(lib, id) /\ findBookShelf(lib, id) = shelf
    THEN lib
    ELSE [lib EXCEPT ![shelf] = Append(@, EnrichedBook(id, shelf, k))]

(* addBook up to its await: the collection it leaves *)
AddLocal(lib, id, shelf, k) ==
    IF findBook(lib, id) /\ findBookShelf(lib, id) = shelf
    THEN lib
    ELSE [RemoveLocal(lib, id) EXCEPT ![shelf] = Append(@, EnrichedBook(id, shelf, k))]

(* removeBook(id) has taken the id out while these pulls were in flight *)
Removed(id) ==
    [pull |-> IF pull = "fetch" THEN gone.pull \cup {id} ELSE gone.pull,
     push |-> IF push.pc = "pull" THEN gone.push \cup {id} ELSE gone.push]

(* addBook has put the id back *)
Regained(id) == [pull |-> gone.pull \ {id}, push |-> gone.push \ {id}]

(* addBook(book, shelf) *)
AddBook(id, shelf) ==
    /\ Tick
    /\ lm # "crashed"
    /\ UNCHANGED <<lm, user, pull, push, auth, login>>
    /\ merged' = NoMerge
    /\ IF lm = "noshelves"
       THEN /\ out' = Out({}, TRUE)
            /\ UNCHANGED <<library, storage, blob, posts, dels, server, gone, edit>>
       ELSE LET same == findBook(library, id) /\ findBookShelf(library, id) = shelf
                moved == findBook(library, id) /\ ~same
                k == IF user = NoUser THEN 0 ELSE CHOOSE r \in Refs : r \notin posts
            IN /\ same \/ user = NoUser \/ \E r \in Refs : r \notin posts
               /\ (moved /\ SendsDelete(library, id)) => dels < MaxPosts
               /\ out' = Out(IF same THEN {"already"} ELSE IF moved THEN {"moved"} ELSE {}, FALSE)
               /\ dels' = IF moved /\ SendsDelete(library, id) THEN dels + 1 ELSE dels
               /\ posts' = IF same \/ user = NoUser THEN posts ELSE posts \cup {k}
               /\ blob' = IF same THEN blob ELSE "ok"
               /\ server' =
                     [rows |-> IF moved /\ SendsDelete(library, id)
                               THEN server.rows \ {id} ELSE server.rows,
                      post |-> IF same \/ user = NoUser THEN server.post
                               ELSE [server.post EXCEPT ![k] = id]]
               /\ gone' = IF same THEN gone ELSE Regained(id)
               /\ edit' = IF ~same /\ edit.id = id THEN NoEdit ELSE edit
               /\ library' = AddLocal(library, id, shelf, k)
               /\ storage' = IF same THEN storage ELSE Stringify(library')

(* addBook after its await, res.ok: enrichedBook.db_id = data.item.id; saveLocally *)
AddBookSaved(k, d) ==
    /\ Tick
    /\ k \in posts
    /\ posts' = posts \ {k}
    /\ library' = SetDbId(library, k, d)
    /\ storage' = Stringify(library')
    /\ blob' = "ok"
    /\ server' = [rows |-> server.rows \cup {server.post[k]},
                  post |-> [server.post EXCEPT ![k] = "none"]]
    /\ merged' = NoMerge
    /\ out' = Quiet
    /\ UNCHANGED <<lm, user, pull, push, auth, dels, login, gone, edit>>

(* an addBook whose failed POST takes the record back off its shelf *)
AddBookFailedRollsBack(k, kind) ==
    /\ Tick
    /\ k \in posts
    /\ posts' = posts \ {k}
    /\ library' = [s \in Shelves |-> SelectSeq(library[s], LAMBDA b : b.ref # k)]
    /\ storage' = Stringify(library')
    /\ blob' = "ok"
    /\ merged' = NoMerge
    /\ out' = Out(CatchToast(kind, "savedlocally"), FALSE)
    /\ server' = [server EXCEPT !.post[k] = "none"]
    /\ UNCHANGED <<lm, user, pull, push, auth, dels, login, gone, edit>>

(* addBook after its await, the request failed: nothing is written *)
AddBookFailed(k, kind) ==
    /\ Tick
    /\ k \in posts
    /\ posts' = posts \ {k}
    /\ library' = DropRef(library, k)
    /\ merged' = NoMerge
    /\ out' = Out(CatchToast(kind, "savedlocally"), FALSE)
    /\ server' = [server EXCEPT !.post[k] = "none"]
    /\ UNCHANGED <<storage, blob, lm, user, pull, push, auth, dels, login, gone, edit>>

(* removeBook(id) up to its await *)
RemoveBook(id) ==
    /\ Tick
    /\ lm # "crashed"
    /\ SendsDelete(library, id) => dels < MaxPosts
    /\ library' = RemoveLocal(library, id)
    /\ storage' = IF findBook(library, id) THEN Stringify(library') ELSE storage
    /\ blob' = IF findBook(library, id) THEN "ok" ELSE blob
    /\ dels' = IF SendsDelete(library, id) THEN dels + 1 ELSE dels
    /\ server' = IF SendsDelete(library, id)
                 THEN [server EXCEPT !.rows = @ \ {id}] ELSE server
    /\ gone' = IF findBook(library, id) THEN Removed(id) ELSE gone
    /\ edit' = IF findBook(library, id) /\ edit.id = id THEN NoEdit ELSE edit
    /\ merged' = NoMerge
    /\ out' = Returns(IF findBook(library, id) THEN "true" ELSE "false")
    /\ UNCHANGED <<lm, user, pull, push, auth, posts, login>>

(* removeBook after its await: the DELETE was answered, with any status *)
RemoveBookAnswered ==
    /\ Tick
    /\ dels > 0
    /\ dels' = dels - 1
    /\ merged' = NoMerge
    /\ out' = Quiet
    /\ UNCHANGED <<library, storage, blob, lm, user, pull, push, auth, posts, login,
                   server, gone, edit>>

(* removeBook after its await: fetch rejected *)
RemoveBookFailed ==
    /\ Tick
    /\ dels > 0
    /\ dels' = dels - 1
    /\ merged' = NoMerge
    /\ out' = Out({"removedlocally"}, FALSE)
    /\ UNCHANGED <<library, storage, blob, lm, user, pull, push, auth, posts, login,
                   server, gone, edit>>

(* new LibraryManager() on a page load: read the blob, start the pull *)
Constructor ==
    /\ Tick
    /\ lm' = Load(blob, storage).lm
    /\ library' = Load(blob, storage).lib
    /\ pull' = IF user # NoUser /\ lm' # "crashed" THEN "fetch" ELSE "idle"
    /\ push' = NoPush
    /\ auth' = "idle"
    /\ posts' = {}
    /\ dels' = 0
    /\ merged' = NoMerge
    /\ out' = Out({}, lm' = "crashed")
    /\ server' = [server EXCEPT !.post = NoPosts]
    /\ gone' = NoGone
    /\ edit' = NoEdit
    /\ UNCHANGED <<storage, blob, user, login>>

(* syncWithBackend from the response on: merge, saveLocally, render *)
ApplySnapshot(snap, criteria, lost) ==
    LET m == Merge(library, snap)
    IN /\ merged' = [done |-> TRUE, pre |-> library, snap |-> snap, threw |-> m.threw,
                     post |-> IF lm = "noshelves" THEN library ELSE m.lib,
                     gone |-> lost]
       /\ IF lm = "noshelves"
          THEN /\ UNCHANGED <<library, storage, blob>>
               /\ out' = Quiet
          ELSE IF m.threw
          THEN /\ library' = m.lib
               /\ UNCHANGED <<storage, blob>>
               /\ out' = Out({"syncfailed"}, FALSE)
          ELSE /\ library' = sortLibrary(m.lib, criteria)
               /\ storage' = Stringify(m.lib)
               /\ blob' = "ok"
               /\ out' = Quiet
       /\ login' = IF auth = "sync" THEN Append(login, "pull") ELSE login

ApplyFailure(kind) ==
    /\ merged' = NoMerge
    /\ out' = Out(CatchToast(kind, "syncfailed"), FALSE)
    /\ UNCHANGED <<library, storage, blob, login>>

(* the constructor's syncWithBackend gets its response *)
PullResponse ==
    /\ Tick
    /\ pull = "fetch"
    /\ pull' = "idle"
    /\ \/ \E snap \in Snapshots, criteria \in SortCriteria :
             ApplySnapshot(snap, criteria, gone.pull)
       \/ \E kind \in FailKinds : ApplyFailure(kind)
    /\ gone' = [gone EXCEPT !.pull = {}]
    /\ UNCHANGED <<lm, user, push, auth, posts, dels, server, edit>>

(* the sort select's change listener: sortLibrary(e.target.value) sorts    *)
(* every shelf of this.library in place and renders it; nothing is saved   *)
SortLibrary(criteria) ==
    /\ Tick
    /\ lm # "crashed"
    /\ library' = IF lm = "noshelves" THEN library ELSE sortLibrary(library, criteria)
    /\ merged' = NoMerge
    /\ out' = Quiet
    /\ UNCHANGED <<storage, blob, lm, user, pull, push, auth, posts, dels, login,
                   server, gone, edit>>

-----------------------------------------------------------------------------
(* handleAuth and syncLocalToBackend *)

(* handleAuth changes nothing before its await, so it is modelled from the *)
(* response on.  The server refuses, or the request fails:                 *)
AuthFailed ==
    /\ Tick
    /\ auth = "idle"
    /\ merged' = NoMerge
    /\ out' = Out({"authfailed"}, FALSE)
    /\ UNCHANGED <<library, storage, blob, lm, user, pull, push, auth, posts, dels, login,
                   server, gone, edit>>

(* a handleAuth that pulls and merges before it pushes *)
AuthOkPullFirst ==
    /\ Tick
    /\ auth = "idle"
    /\ user' = TheUser
    /\ \E snap \in Snapshots :
          /\ ~Merge(library, snap).threw
          /\ library' = Merge(library, snap).lib
          /\ storage' = Stringify(library')
    /\ blob' = "ok"
    /\ LET itemsToSync == ItemsToSync(library')
       IN IF itemsToSync = <<>>
          THEN /\ push' = [pc |-> "idle", batch |-> <<>>, outcome |-> "empty"]
               /\ auth' = "redirect"
               /\ login' = <<"pull">>
          ELSE /\ push' = [pc |-> "post", batch |-> itemsToSync, outcome |-> "none"]
               /\ auth' = "sync"
               /\ login' = <<"pull", "push">>
    /\ merged' = NoMerge
    /\ out' = Out({"welcome", "syncing"}, FALSE)
    /\ UNCHANGED <<lm, pull, posts, dels, server, gone, edit>>

(* res.ok: store the user, then, if window.libManager exists,              *)
(* syncLocalToBackend(data.user) up to its await                           *)
AuthOk ==
    /\ Tick
    /\ auth = "idle"
    /\ user' = TheUser
    /\ IF lm = "crashed"
       THEN /\ push' = NoPush
            /\ auth' = "redirect"
            /\ login' = <<>>
            /\ out' = Out({"welcome"}, FALSE)
       ELSE LET itemsToSync == ItemsToSync(library)
            IN /\ out' = Out({"welcome", "syncing"}, FALSE)
               /\ IF itemsToSync = <<>>
                  THEN /\ push' = [pc |-> "idle", batch |-> <<>>, outcome |-> "empty"]
                       /\ auth' = "redirect"
                       /\ login' = <<>>
                  ELSE /\ push' = [pc |-> "post", batch |-> itemsToSync, outcome |-> "none"]
                       /\ auth' = "sync"
                       /\ login' = <<"push">>
    /\ merged' = NoMerge
    /\ UNCHANGED <<library, storage, blob, lm, pull, posts, dels, server, gone, edit>>

(* a failure handler that discards the records it could not upload *)
PushFailedDrops(kind) ==
    /\ Tick
    /\ push.pc = "post"
    /\ push' = [push EXCEPT !.pc = "idle", !.outcome = "failed"]
    /\ auth' = "redirect"
    /\ library' = [s \in Shelves |-> SelectSeq(library[s], LAMBDA b : b.db_id # UNDEF)]
    /\ storage' = Stringify(library')
    /\ blob' = "ok"
    /\ merged' = NoMerge
    /\ out' = Out(CatchToast(kind, "uploadfailed"), FALSE)
    /\ UNCHANGED <<lm, user, pull, posts, dels, login, server, gone, edit>>

(* POST /library/sync failed: fetch rejects, !res.ok, or res.json() rejects *)
PushFailed(kind) ==
    /\ Tick
    /\ push.pc = "post"
    /\ push' = [push EXCEPT !.pc = "idle", !.outcome = "failed"]
    /\ auth' = "redirect"
    /\ merged' = NoMerge
    /\ out' = Out(CatchToast(kind, "uploadfailed"), FALSE)
    /\ UNCHANGED <<library, storage, blob, lm, user, pull, posts, dels, login,
                   server, gone, edit>>

(* POST /library/sync succeeded: await this.syncWithBackend() sends its fetch *)
PushOk ==
    /\ Tick
    /\ push.pc = "post"
    /\ IF user # NoUser
       THEN /\ push' = [push EXCEPT !.pc = "pull", !.outcome = "uploaded"]
            /\ UNCHANGED auth
       ELSE /\ push' = [push EXCEPT !.pc = "idle", !.outcome = "uploaded"]
            /\ auth' = "redirect"
    /\ merged' = NoMerge
    /\ out' = Out({"synced"}, FALSE)
    /\ server' = [server EXCEPT !.rows =
                     @ \cup {push.batch[i].book.id : i \in 1..Len(push.batch)}]
    /\ UNCHANGED <<library, storage, blob, lm, user, pull, posts, dels, login, gone, edit>>

(* the pull inside syncLocalToBackend gets its response; both return *)
PushPullResponse ==
    /\ Tick
    /\ push.pc = "pull"
    /\ auth' = "redirect"
    /\ \/ /\ \E snap \in Snapshots, criteria \in SortCriteria :
                ApplySnapshot(snap, criteria, gone.push)
          /\ push' = [push EXCEPT !.pc = "idle", !.outcome = "pulled"]
       \/ /\ \E kind \in FailKinds : ApplyFailure(kind)
          /\ push' = [push EXCEPT !.pc = "idle", !.outcome = "pullfailed"]
    /\ gone' = [gone EXCEPT !.push = {}]
    /\ UNCHANGED <<lm, user, pull, posts, dels, server, edit>>

(* logout button: remove the stored user, load index.html *)
Logout ==
    /\ Tick
    /\ lm # "crashed"
    /\ user # NoUser
    /\ user' = NoUser
    /\ lm' = Load(blob, storage).lm
    /\ library' = Load(blob, storage).lib
    /\ pull' = "idle"
    /\ push' = NoPush
    /\ auth' = "idle"
    /\ posts' = {}
    /\ dels' = 0
    /\ merged' = NoMerge
    /\ out' = Out({}, lm' = "crashed")
    /\ server' = [server EXCEPT !.post = NoPosts]
    /\ gone' = NoGone
    /\ edit' = NoEdit
    /\ UNCHANGED <<storage, blob, login>>

-----------------------------------------------------------------------------
(* BookshelfRenderer3D: works on the persisted blob only *)

(* addToLibrary(book) *)
addToLibrary(id) ==
    /\ Tick
    /\ merged' = NoMerge
    /\ IF blob \in {"garbage", "noshelves"}
       THEN /\ out' = Out({}, TRUE)
            /\ UNCHANGED <<storage, blob, edit>>
       ELSE /\ storage' =
                 IF findBook(storage, id) THEN storage
                 ELSE [storage EXCEPT !["want"] =
                         Append(@, [id |-> id, db_id |-> UNDEF, title |-> LocalTitle,
                                    progress |-> UNDEF, date_added |-> UNDEF])]
            /\ blob' = IF findBook(storage, id) THEN blob ELSE "ok"
            /\ edit' = IF findBook(storage, id) THEN edit
                       ELSE [op |-> "add", id |-> id, to |-> "want"]
            /\ out' = Quiet
    /\ UNCHANGED <<library, lm, user, pull, push, auth, posts, dels, login, server, gone>>

(* moveBook(bookId, fromShelf, toShelf) *)
moveBook(id, fromShelf, toShelf) ==
    /\ Tick
    /\ merged' = NoMerge
    /\ IF blob = "garbage" /\ fromShelf # toShelf
       THEN /\ out' = Out({}, TRUE)
            /\ UNCHANGED <<storage, blob, edit>>
       ELSE LET bookIndex == FirstIdx(storage[fromShelf], id)
            IN /\ storage' =
                    IF fromShelf = toShelf \/ bookIndex = 0 THEN storage
                    ELSE [storage EXCEPT ![fromShelf] = RemoveAt(@, bookIndex),
                                         ![toShelf] = Append(@, storage[fromShelf][bookIndex])]
               /\ edit' = IF fromShelf = toShelf \/ bookIndex = 0 THEN edit
                          ELSE [op |-> "move", id |-> id, to |-> toShelf]
               /\ UNCHANGED blob
               /\ out' = Quiet
    /\ UNCHANGED <<library, lm, user, pull, push, auth, posts, dels, login, server, gone>>

(* removeBook(bookId) of the renderer: splice the first hit on every shelf *)
removeBook3D(id) ==
    /\ Tick
    /\ merged' = NoMerge
    /\ IF blob = "garbage"
       THEN /\ out' = Out({}, TRUE)
            /\ UNCHANGED <<storage, edit>>
       ELSE /\ storage' =
                 [s \in Shelves |->
                    IF FirstIdx(storage[s], id) = 0 THEN storage[s]
                    ELSE RemoveAt(storage[s], FirstIdx(storage[s], id))]
            /\ edit' = IF findBook(storage, id)
                       THEN [op |-> "remove", id |-> id, to |-> "none"] ELSE edit
            /\ out' = Quiet
    /\ UNCHANGED <<library, blob, lm, user, pull, push, auth, posts, dels, login,
                   server, gone>>

-----------------------------------------------------------------------------

Next ==
    \/ \E id \in Ids, shelf \in Shelves : AddBook(id, shelf)
    \/ \E k \in Refs, d \in DbIds : AddBookSaved(k, d)
    \/ \E k \in Refs, kind \in FailKinds : AddBookFailed(k, kind)
    \/ \E id \in Ids : RemoveBook(id)
    \/ RemoveBookAnswered
    \/ RemoveBookFailed
    \/ Constructor
    \/ PullResponse
    \/ \E criteria \in SortCriteria \ {"none"} : SortLibrary(criteria)
    \/ AuthFailed
    \/ AuthOk
    \/ \E kind \in FailKinds : PushFailed(kind)
    \/ PushOk
    \/ PushPullResponse
    \/ Logout
    \/ \E id \in Ids : addToLibrary(id)
    \/ \E id \in Ids, fromShelf \in Shelves :
          \E toShelf \in Shelves \ {fromShelf} : moveBook(id, fromShelf, toShelf)
    \/ \E id \in Ids : removeBook3D(id)

Spec == Init /\ [][Next]_vars

-----------------------------------------------------------------------------
(* Properties *)

(* how often the record value r occurs on a shelf *)
Occurrences(seq, r) == Cardinality({i \in 1..Len(seq) : seq[i] = r})

(* a step of an add or a move operation *)
AddOrMove ==
    \/ \E id \in Ids, shelf \in Shelves : AddBook(id, shelf)
    \/ \E k \in Refs, d \in DbIds : AddBookSaved(k, d)
    \/ \E k \in Refs, kind \in FailKinds : AddBookFailed(k, kind)
    \/ \E id \in Ids : addToLibrary(id)
    \/ \E id \in Ids, fromShelf \in Shelves :
          \E toShelf \in Shelves \ {fromShelf} : moveBook(id, fromShelf, toShelf)

(* C1: cross-shelf uniqueness.  An add or move step taken from a collection *)
(* (in memory and persisted) in which every id occurs at most once leaves   *)
(* every id at most once, on at most one shelf, in both.                    *)
C1_Uniqueness ==
    [][\/ Unique(library') /\ Unique(storage')
       \/ ~(Unique(library) /\ Unique(storage))
       \/ ~AddOrMove]_vars

(* b1 was added with addBook and then moved by the renderer's moveBook *)
C1_Witness ==
    /\ Unique(library) /\ Unique(storage)
    /\ \E i \in 1..Len(library["want"]) :
          library["want"][i] = EnrichedBook("b1", "want", 0)
    /\ findBookShelf(storage, "b1") = "finished"

(* C2: pull-merge loses no data.  Every id on a local shelf when the merge  *)
(* starts is on a local shelf when syncWithBackend finishes, normally or    *)
(* through its catch block.                                                 *)
C2_NoLoss == merged.done => AllIds(merged.pre) \subseteq AllIds(library)

(* the records with this id, over all shelves *)
RecordsOf(lib, id) ==
    UNION {{lib[s][i] : i \in {j \in 1..Len(lib[s]) : lib[s][j].id = id}} : s \in Shelves}

Total(lib) == Len(lib["current"]) + Len(lib["want"]) + Len(lib["finished"])

(* C3: shelf routing on conflict.  A local and a remote record share an id  *)
(* and are on different shelves: after the merge exactly one record has the *)
(* id, on the remote record's shelf, with the remote record's db_id.        *)
C3_ShelfRouting ==
    merged.done =>
        \A i \in 1..Len(merged.snap) :
            LET item == merged.snap[i]
                gid == item.google_books_id
            IN (/\ item.shelf_type \in Shelves
                /\ \E s \in Shelves \ {item.shelf_type} : gid \in IdsOn(merged.pre, s))
               => /\ Count(library, gid) = 1
                  /\ gid \in IdsOn(library, item.shelf_type)
                  /\ \A r \in RecordsOf(library, gid) : r.db_id = item.id

(* C4: unmatched local records are retained as-is.  A local record whose id *)
(* is not in the snapshot, with or without a db_id, is on the same shelf    *)
(* with the same fields after the merge.                                    *)
C4_UnmatchedRetained ==
    merged.done =>
        \A s \in Shelves : \A i \in 1..Len(merged.pre[s]) :
            LET r == merged.pre[s][i]
            IN r.id \notin SnapIds(merged.snap)
               => Occurrences(library[s], r) = Occurrences(merged.pre[s], r)

(* a merge has run over a snapshot that names b1 while b2, unsynced, was on a shelf *)
C4_Witness ==
    /\ merged.done
    /\ SnapIds(merged.snap) = {"b1"}
    /\ \E s \in Shelves : \E i \in 1..Len(merged.pre[s]) :
          merged.pre[s][i].id = "b2" /\ merged.pre[s][i].db_id = UNDEF
    /\ "b1" \in AllIds(merged.pre)

(* C5: progress preservation.  A local record with a numeric progress whose *)
(* id the snapshot has on the same shelf keeps that progress.               *)
C5_ProgressKept ==
    merged.done =>
        \A s \in Shelves : \A i \in 1..Len(merged.pre[s]) :
            LET r == merged.pre[s][i]
            IN (/\ r.progress >= 0
                /\ \E k \in 1..Len(merged.snap) :
                      /\ merged.snap[k].google_books_id = r.id
                      /\ merged.snap[k].shelf_type = s)
               => /\ r.id \in IdsOn(library, s)
                  /\ \A j \in 1..Len(library[s]) :
                        library[s][j].id = r.id => library[s][j].progress = r.progress

(* C6: remote-only insertion.  For a remote record whose id is on no local  *)
(* shelf the merge inserts exactly one record with that id, on the remote   *)
(* record's shelf, with its db_id; an empty store and a one-record snapshot *)
(* give exactly one record.                                                 *)
C6_RemoteOnlyInserted ==
    merged.done =>
        /\ \A i \in 1..Len(merged.snap) :
              LET item == merged.snap[i]
                  gid == item.google_books_id
              IN (item.shelf_type \in Shelves /\ gid \notin AllIds(merged.pre))
                 => /\ Count(library, gid) = 1
                    /\ gid \in IdsOn(library, item.shelf_type)
                    /\ \A r \in RecordsOf(library, gid) : r.db_id = item.id
        /\ (Total(merged.pre) = 0 /\ Len(merged.snap) = 1
               /\ merged.snap[1].shelf_type \in Shelves)
              => Total(library) = 1

(* handleAuth gets res.ok and runs syncLocalToBackend up to its await *)
LoginStep == auth = "idle" /\ auth' # "idle"

(* the records of the collection that have no db_id, as shelf/record pairs *)
WithoutDbId(lib) ==
    UNION {{[book |-> StringifyBook(lib[s][i]), shelf |-> s] :
               i \in {j \in 1..Len(lib[s]) : lib[s][j].db_id = UNDEF}} : s \in Shelves}

NumWithoutDbId(lib) ==
    Cardinality({<<s, i>> \in Shelves \X (1..Total(lib)) :
                    i <= Len(lib[s]) /\ lib[s][i].db_id = UNDEF})

(* C7: push-sync selection.  The batch of syncLocalToBackend holds exactly  *)
(* the records without a db_id, over the three shelves, each tagged with    *)
(* its shelf; no record with a db_id is in it; an upload is in flight       *)
(* exactly when the batch is not empty.                                     *)
C7_PushSelection ==
    [][LoginStep =>
          /\ {push'.batch[j] : j \in 1..Len(push'.batch)} = WithoutDbId(library)
          /\ Len(push'.batch) = NumWithoutDbId(library)
          /\ \A j \in 1..Len(push'.batch) : push'.batch[j].book.db_id = UNDEF
          /\ (push'.pc = "post") <=> (push'.batch # <<>>)]_vars

(* an upload is in flight for one unsynced record while another has a db_id *)
C7_Witness ==
    /\ push.pc = "post"
    /\ Len(push.batch) = 1
    /\ Total(library) = 2
    /\ NumWithoutDbId(library) = 1

(* the bulk upload of syncLocalToBackend fails *)
PushFailStep == push.pc = "post" /\ push'.pc = "idle" /\ push'.outcome = "failed"

(* C8: push-sync fails open.  When the bulk upload throws or is refused the *)
(* collection in memory and the persisted blob stay as they were, and the   *)
(* records without a db_id are the ones the next push selects.              *)
C8_PushFailsOpen ==
    [][PushFailStep =>
          /\ library' = library
          /\ storage' = storage
          /\ ItemsToSync(library') = ItemsToSync(library)
          /\ \A j \in 1..Len(push.batch) :
                (push.batch[j] \in WithoutDbId(library))
                    => (push.batch[j] \in WithoutDbId(library'))]_vars

(* an upload of a non-empty batch has failed and the batch is still pending *)
C8_Witness ==
    /\ push.outcome = "failed"
    /\ push.batch # <<>>
    /\ ItemsToSync(library) = push.batch

(* syncLocalToBackend returns after a bulk upload that succeeded *)
PushReturnStep == push.pc = "pull" /\ push'.pc = "idle" /\ push'.outcome # "none"

(* C9: push-sync success assigns server ids.  When the bulk upload has      *)
(* succeeded, every uploaded record has a db_id once syncLocalToBackend     *)
(* returns, and a pull-merge has run after the upload.                      *)
C9_UploadedHaveIds ==
    [][PushReturnStep =>
          /\ merged'.done
          /\ \A j \in 1..Len(push.batch) :
                \A r \in RecordsOf(library', push.batch[j].book.id) : r.db_id # UNDEF]_vars

(* C10: login ordering.  On a successful login the pull and its merge come  *)
(* first and the push after it, exactly once.                               *)
C10_PullThenPush ==
    auth = "redirect" =>
        /\ Cardinality({i \in 1..Len(login) : login[i] = "push"}) = 1
        /\ \A i \in 1..Len(login) :
              login[i] = "push" => \E j \in 1..(i - 1) : login[j] = "pull"

(* C10 as the code has it: the push, if any record lacks a db_id, is the    *)
(* first thing a login does and happens at most once; the pull of           *)
(* syncLocalToBackend is merged only after that push.                       *)
C10_PushThenPull ==
    /\ \A i \in 1..Len(login) : login[i] = "push" => i = 1
    /\ push.outcome = "pulled" =>
          /\ Len(login) >= 2
          /\ login[1] = "push"
          /\ login[Len(login)] = "pull"
    /\ push.outcome = "empty" => login = <<>>
    /\ push.pc = "post" => (login # <<>> /\ login[1] = "push")

(* a login has pushed its batch and then merged the pull that follows *)
C10_Witness ==
    /\ auth = "redirect"
    /\ push.outcome = "pulled"
    /\ login = <<"push", "pull">>

(* C11: idempotent add.  addBook(book, shelf) called while a record with   *)
(* book.id is on that shelf leaves the collection and the blob as they     *)
(* were and sends no request.                                              *)
C11_IdempotentAdd ==
    [][\A id \in Ids, shelf \in Shelves :
          (lm = "ok" /\ id \in IdsOn(library, shelf) /\ AddBook(id, shelf))
              => (library' = library /\ storage' = storage
                     /\ posts' = posts /\ dels' = dels)]_vars

(* addBook(id, shelf) is called while the id is in the collection but not  *)
(* on the target shelf.  Such a call of a logged-in user sends its POST,   *)
(* which is tested first because it is the cheapest mark of the step.      *)
AddOntoOtherShelf(id, shelf) ==
    /\ user = NoUser \/ posts' # posts
    /\ lm = "ok"
    /\ findBook(library, id)
    /\ id \notin IdsOn(library, shelf)
    /\ AddBook(id, shelf)

C13_MoveAbsentRaises ==
    [][\A id \in Ids, fromShelf \in Shelves :
          \A toShelf \in Shelves \ {fromShelf} :
             (/\ blob # "garbage"
              /\ id \notin IdsOn(storage, fromShelf)
              /\ moveBook(id, fromShelf, toShelf))
                => (out'.raised /\ storage' = storage /\ blob' = blob)]_vars

(* a read of the blob by the 3D renderer *)
RendererReads ==
    \/ \E id \in Ids : addToLibrary(id)
    \/ \E id \in Ids : removeBook3D(id)
    \/ \E id \in Ids, fromShelf \in Shelves :
          \E toShelf \in Shelves \ {fromShelf} : moveBook(id, fromShelf, toShelf)

(* C14: load fails soft.  Constructing the LibraryManager on a blob that   *)
(* is absent, not JSON, or JSON without the shelf lists gives three empty  *)
(* shelves and raises nothing; the renderer's reads raise nothing either.  *)
C14_LoadFailsSoft ==
    [][/\ (blob # "ok" /\ Constructor)
             => (lm' = "ok" /\ library' = EmptyLibrary /\ ~out'.raised)
       /\ (blob # "ok" /\ RendererReads) => ~out'.raised]_vars

(* a step of a handler that adds, removes or moves a book, in the manager  *)
(* or in the renderer, up to its return or across one of its awaits        *)
Mutation ==
    \/ \E id \in Ids, shelf \in Shelves : AddBook(id, shelf)
    \/ \E k \in Refs, d \in DbIds : AddBookSaved(k, d)
    \/ \E id \in Ids : RemoveBook(id)
    \/ RendererReads

(* C15: write-through.  When a handler that performed an add, a remove or  *)
(* a move returns control, the blob is the serialization of the collection *)
(* in memory.                                                              *)
C15_WriteThrough ==
    [][(/\ lm = "ok"
        /\ <<library, storage>>' # <<library, storage>>
        /\ Mutation)
          => (blob' = "ok" /\ storage' = Stringify(library'))]_vars

(* a snapshot fetch has failed: syncWithBackend returns and no merge ran   *)
PullFailStep ==
    /\ ~merged'.done
    /\ \/ pull = "fetch" /\ pull' = "idle" /\ user' = user
       \/ push.pc = "pull" /\ push'.pc = "idle" /\ push'.outcome = "pullfailed"

(* a remote call has failed: the bulk upload, a snapshot fetch, the DELETE *)
(* of removeBook, or the POST of addBook                                   *)
RemoteFailure ==
    \/ PushFailStep
    \/ PullFailStep
    \/ RemoveBookFailed
    \/ \E k \in Refs, kind \in FailKinds : AddBookFailed(k, kind)

(* C16: local state stands on remote failure.  When a remote call fails by *)
(* a network error, a non-OK status or an unreadable body, the collection  *)
(* in memory and the blob are what the local part of the operation left,   *)
(* and no exception leaves the handler.  (removeBook does not look at the  *)
(* status of its DELETE: RemoveBookAnswered covers the non-OK answer.)     *)
C16_LocalStateStands ==
    [][(RemoteFailure \/ RemoveBookAnswered) =>
          /\ Stringify(library') = Stringify(library)
          /\ storage' = storage
          /\ blob' = blob
          /\ ~out'.raised]_vars

(* the POST of an addBook has failed; the book is on its shelf, unsynced,  *)
(* in memory and in the blob                                               *)
C16_Witness ==
    /\ out.toasts = {"savedlocally"}
    /\ posts = {}
    /\ "b2" \in IdsOn(library, "want")
    /\ storage = Stringify(library)
    /\ \A i \in 1..Len(library["want"]) : library["want"][i].db_id = UNDEF

(* C17: every remote failure is announced.  Whenever a remote call fails,  *)
(* by a thrown network error or by a non-OK response, the handler shows a  *)
(* toast.                                                                  *)
C17_FailureAnnounced ==
    [][RemoteFailure => out'.toasts # {}]_vars

(* the ids of the records in front of position j *)
IdsBefore(seq, j) == {seq[k].id : k \in 1..(j - 1)}

(* C18: same-shelf conflict, remote wins metadata.  A local and a remote   *)
(* record share an id and a shelf: when the merge loop has ended the local *)
(* record has the remote title and db_id, is the only record with the id,  *)
(* and is on the same shelf with no record moved in front of it.           *)
C18_RemoteWinsMetadata ==
    (merged.done /\ lm = "ok") =>
        \A i \in 1..Len(merged.snap) :
            LET item == merged.snap[i]
                gid == item.google_books_id
            IN \A s \in Shelves : \A j \in 1..Len(merged.pre[s]) :
                  (merged.pre[s][j].id = gid /\ item.shelf_type = s)
                     => LET n == FirstIdx(merged.post[s], gid)
                        IN /\ Count(merged.post, gid) = 1
                           /\ n > 0
                           /\ merged.post[s][n].title = item.title
                           /\ merged.post[s][n].db_id = item.id
                           /\ IdsBefore(merged.post[s], n) \subseteq IdsBefore(merged.pre[s], j)

(* the date_added values of the records with this id *)
DatesOf(lib, id) == {r.date_added : r \in RecordsOf(lib, id)}

(* C19: addedAt is immutable.  While an id stays in the library, an add, a *)
(* move or a pull-merge leaves the date_added of its record as it was.     *)
C19_DateAddedImmutable ==
    [][\A id \in Ids :
          (/\ lm = "ok"
           /\ id \in AllIds(library) /\ id \in AllIds(library')
           /\ AddOrMove \/ PullResponse \/ PushPullResponse)
             => DatesOf(library', id) \subseteq DatesOf(library, id)]_vars

(* no record of the want and finished shelves has a numeric progress *)
ProgressOnCurrentOnly(lib) ==
    \A s \in {"want", "finished"} : \A i \in 1..Len(lib[s]) :
        lib[s][i].progress \in {NULL, UNDEF}

(* C20: progress is tied to the current shelf.  In every reachable state   *)
(* the records on want and finished have no numeric progress, in memory    *)
(* and in the blob.                                                        *)
C20_ProgressOnCurrentOnly ==
    ProgressOnCurrentOnly(library) /\ ProgressOnCurrentOnly(storage)

(* C21: sort is not stored.  A requested sort (the select's change, or the *)
(* sortLibrary call that ends a pull-merge) leaves the order of the        *)
(* records of the collection as it was, so that a later save persists      *)
(* insertion order.                                                        *)
C21_SortNotStored ==
    [][/\ \A criteria \in SortCriteria \ {"none"} :
             library' = library \/ ~(lm = "ok" /\ SortLibrary(criteria))
       /\ (merged'.done /\ ~merged'.threw /\ lm = "ok") => library' = merged'.post]_vars

(* C22: no remote library call without an identity.  A snapshot fetch, a   *)
(* bulk upload, a POST or a DELETE is sent only while a user is stored,    *)
(* and a step taken without a user, an add or a remove among them, changes *)
(* nothing about the requests in flight or the backend.                    *)
C22_NoCallWithoutUser ==
    [][/\ pull' = "fetch" => user' # NoUser
       /\ push'.pc \in {"post", "pull"} => user' # NoUser
       /\ posts' \ posts # {} => (user # NoUser /\ user' # NoUser)
       /\ dels' > dels => (user # NoUser /\ user' # NoUser)
       /\ (user = NoUser /\ user' = NoUser)
             => UNCHANGED <<posts, dels, pull, push, server>>]_vars

(* without a user, a book has been added and another removed *)
C22_Witness ==
    /\ user = NoUser
    /\ out.ret = "true"
    /\ "b2" \in AllIds(library)
    /\ posts = {} /\ dels = 0

(* the snapshot has, for every uploaded record, an item with its id on the *)
(* shelf it was uploaded with                                              *)
ContainsUploaded(snap, batch) ==
    \A i \in 1..Len(batch) : \E j \in 1..Len(snap) :
        /\ snap[j].google_books_id = batch[i].book.id
        /\ snap[j].shelf_type = batch[i].shelf

(* the login has gone through: handleAuth stored the user, the bulk upload *)
(* of the records without db_id was accepted, and the pull that follows it *)
(* merged a snapshot naming them without reporting a failure               *)
LoginSynced ==
    /\ merged.done /\ ~merged.threw
    /\ login = <<"push", "pull">>
    /\ push.outcome = "pulled"
    /\ push.batch # <<>>
    /\ ContainsUploaded(merged.snap, push.batch)

Uploaded == {push.batch[i].book.id : i \in 1..Len(push.batch)}

FreshlyLoaded ==
    /\ blob \in {"ok", "noshelves"}
    /\ lm = Load(blob, storage).lm
    /\ library = Load(blob, storage).lib

C25_MergeKeepsUnique ==
    (merged.done /\ lm = "ok" /\ Unique(merged.pre)) => Unique(merged.post)

(* C26: a removal survives its own in-flight add.  The POST of an addBook  *)
(* is answered OK after the book it carries has been taken out of the      *)
(* collection again, and no POST or DELETE is left in flight: the book is  *)
(* not in the collection and the backend holds no row for it.              *)
C26_RemovalSurvivesAdd ==
    [][\A k \in Refs :
          (/\ k \in posts /\ posts' = {} /\ dels' = 0
           /\ server.post[k] # "none"
           /\ ~findBook(library, server.post[k])
           /\ \E d \in DbIds : AddBookSaved(k, d))
             => (/\ ~findBook(library', server.post[k])
                 /\ server.post[k] \notin server'.rows)]_vars

(* C27: a removal survives an in-flight pull.  A book that removeBook took *)
(* out after syncWithBackend had sent its snapshot request, and that was   *)
(* not added again, is on no shelf when the merge of the response is done. *)
C27_RemovalSurvivesPull ==
    (merged.done /\ lm = "ok") => \A id \in merged.gone : ~findBook(library, id)

(* the blob shows the renderer's last write: the book it added is there,   *)
(* the book it moved is on the shelf it was moved to, the book it removed  *)
(* is on no shelf                                                          *)
Reflected(e, sto) ==
    CASE e.op = "add" -> findBook(sto, e.id)
      [] e.op = "move" -> e.id \in IdsOn(sto, e.to)
      [] e.op = "remove" -> ~findBook(sto, e.id)
      [] OTHER -> TRUE

(* C28: no lost update between the two writers of the blob.  A step on the *)
(* same page that is not the renderer's, and not an addBook or removeBook  *)
(* of the very book the renderer wrote, leaves the renderer's last write   *)
(* reflected in the blob.                                                  *)
C28_NoLostUpdate ==
    [][(edit.op # "none" /\ edit' = edit /\ blob = "ok" /\ Reflected(edit, storage))
          => (blob' = "ok" /\ Reflected(edit, storage'))]_vars

(* C29: remove postcondition.  When removeBook(id) has run its local part  *)
(* no shelf holds a record with the id, the records with other ids are on  *)
(* their shelves in their order, and removeBook returns true exactly when  *)
(* a record with the id existed.                                           *)
C29_RemovePostcondition ==
    [][\A id \in Ids :
          (lm = "ok" /\ out'.ret # "none" /\ RemoveBook(id))
             => (/\ ~findBook(library', id)
                 /\ \A s \in Shelves : Without(library'[s], id) = Without(library[s], id)
                 /\ out'.ret = IF findBook(library, id) THEN "true" ELSE "false")]_vars

(* the shelves with, for every record in order, its id, db_id and progress *)
ShelfData(lib) ==
    [s \in Shelves |->
        [i \in 1..Len(lib[s]) |->
            [id |-> lib[s][i].id, db_id |-> lib[s][i].db_id,
             progress |-> lib[s][i].progress]]]

(* C30: pull-merge is idempotent.  Merging the snapshot once more into the *)
(* collection a merge has left gives the same shelves, with the same ids,  *)
(* db_ids and progress values.                                             *)
C30_MergeIdempotent ==
    (merged.done /\ lm = "ok")
        => ShelfData(Merge(merged.post, merged.snap).lib) = ShelfData(merged.post)

====
